---------------------------- MODULE Spec2Model ----------------------------
(***************************************************************************)
(* Model of slurm_tuner.create_objective: one blocking `objective(trial)`  *)
(* call per optimizer trial.  Each call resolves the trial's parameters,   *)
(* submits one batch job with sbatch, waits for the shared results file,   *)
(* then polls the file for the row of the expected step or the terminal    *)
(* row (step = -1), reporting intermediate values to the pruning oracle    *)
(* and cancelling the job with scancel when the oracle says prune.         *)
(*                                                                         *)
(* Several calls run concurrently against one results file.  The remote    *)
(* jobs, the scheduler, the optimizer's sampler and its pruning oracle are *)
(* the environment: their choices are drawn from small sets.               *)
(***************************************************************************)
EXTENDS Integers, Sequences, FiniteSets, TLC

(***************************************************************************)
(* Bounds of the model.                                                    *)
(***************************************************************************)
\* Rows the remote jobs append to the results file in one run.
MaxRows == 3
\* Largest intermediate step a remote job writes.
MaxStep == 1

\* The trial numbers the optimizer hands out (trial.number): every one has
\* its own evaluation and its own remote job.
Trials == {3, 7}
\* The trials whose evaluation runs here; the others are evaluated by other
\* workers of the optimizer, and only the rows their jobs write are seen.
Local == {7}
\* Metric values the remote job of a trial writes into its rows.
Metrics(t) == IF t \in Local THEN {3, 5} ELSE {4}
\* Values the optimizer's sampler returns from a suggest_* call.
SampleValues == {1, 2}
\* Job identifier the scheduler gives to the first accepted submission.
FirstJobId == 41

\* The parameter specifications (the kinds, in declaration order) an
\* objective is created with.
ParamSpecs ==
    { <<"int">>,
      <<"float", "categorical">>,
      <<"categorial", "bogus">>,
      <<"bogus", "int">> }

(***************************************************************************)
(* Text: a string is a sequence of one-character strings.                  *)
(***************************************************************************)
Digits == <<"0", "1", "2", "3", "4", "5", "6", "7", "8", "9">>

IsDigit(c) == \E i \in 1..Len(Digits) : Digits[i] = c

\* The value of one decimal digit, as int() reads it.
DigitValue(c) == (CHOOSE i \in 1..Len(Digits) : Digits[i] = c) - 1

\* int(match.group(1)): the decimal value of a digit string.
RECURSIVE int(_)
int(ds) ==
    IF ds = <<>> THEN 0
    ELSE 10 * int(SubSeq(ds, 1, Len(ds) - 1)) + DigitValue(ds[Len(ds)])

\* The scheduler's decimal rendering of a job identifier.
RECURSIVE Decimal(_)
Decimal(n) ==
    IF n < 10 THEN <<Digits[n + 1]>>
    ELSE Decimal(n \div 10) \o <<Digits[(n % 10) + 1]>>

\* The literal text of the acceptance pattern, before the digits.
Literal ==
    <<"S", "u", "b", "m", "i", "t", "t", "e", "d", " ",
      "b", "a", "t", "c", "h", " ", "j", "o", "b", " ">>

\* Whether the literal text stands in s at position i.
LiteralAt(s, i) ==
    /\ i + Len(Literal) - 1 <= Len(s)
    /\ \A j \in 1..Len(Literal) : s[i + j - 1] = Literal[j]

\* The first position at or after i of s that holds no digit (Len(s) + 1
\* when the digits run to the end): where a greedy \d+ started at i stops.
RECURSIVE DigitRunEnd(_, _)
DigitRunEnd(s, i) ==
    IF i <= Len(s) /\ IsDigit(s[i]) THEN DigitRunEnd(s, i + 1) ELSE i

\* regex = r'Submitted batch job (\d+)\n' matches s at position i: the
\* literal, one or more digits, and a line feed right after the digits.
RegexMatchesAt(s, i) ==
    /\ LiteralAt(s, i)
    /\ LET d == i + Len(Literal)
           e == DigitRunEnd(s, d)
       IN  e > d /\ e <= Len(s) /\ s[e] = "\n"

\* re.search(regex, output.stdout): the leftmost match, or None.
\* group is match.group(1).
re_search(s) ==
    IF \E i \in 1..Len(s) : RegexMatchesAt(s, i)
    THEN LET i == CHOOSE k \in 1..Len(s) :
                      /\ RegexMatchesAt(s, k)
                      /\ \A m \in 1..(k - 1) : ~RegexMatchesAt(s, m)
             d == i + Len(Literal)
         IN  [found |-> TRUE, group |-> SubSeq(s, d, DigitRunEnd(s, d) - 1)]
    ELSE [found |-> FALSE, group |-> <<>>]

\* What sbatch may print on standard output when it accepts a submission and
\* gives it job identifier n.
SbatchOutputs(n) ==
    { Literal \o Decimal(n) \o <<"\n">>,
      <<"w", "a", "r", "n", "\n">> \o Literal \o Decimal(n) \o <<"\n">>,
      Literal \o Decimal(n),
      Literal \o Decimal(n) \o <<" ", "o", "n", " ", "c", "\n">>,
      <<"o", "k", "\n">>,
      <<>> }

(***************************************************************************)
(* The program's state.                                                    *)
(***************************************************************************)
VARIABLES
    \* create_objective's arguments, fixed for the run
    trial_param_types,
    return_average_on_prune,
    log_trial_id_with_intermediate,
    \* the environment
    file_exists,       \* os.path.isfile(results_path)
    store,             \* the rows of the results file, in file order
    jobs,              \* trial -> the job the scheduler runs for it (0: none)
    next_job,          \* the next job identifier the scheduler gives out
    \* one evaluation objective(trial) per trial
    pc,                \* where the evaluation stands
    trial_params,      \* the sampled values, in declaration order
    stdout,            \* output.stdout of the sbatch run
    job_id,            \* the job identifier parsed from stdout (0: none)
    current_step,      \* the expected step
    seen,              \* what the last poll cycle found in the store
    outcome,           \* how the evaluation ended
    result,            \* the value it returned
    trace              \* its calls to the outside, in order

cfg_vars == <<trial_param_types, return_average_on_prune,
              log_trial_id_with_intermediate>>
env_vars == <<file_exists, store, jobs, next_job>>
eval_vars == <<pc, trial_params, stdout, job_id, current_step, seen,
               outcome, result, trace>>
vars == <<cfg_vars, env_vars, eval_vars>>

\* A returned value is a fraction num/den (den = 0: nothing was returned).
None == [num |-> 0, den |-> 0]
Value(n) == [num |-> n, den |-> 1]

\* One call to the outside.
Event(op, val, key, msg) == [op |-> op, val |-> val, key |-> key, msg |-> msg]

(***************************************************************************)
(* Pure functions of the program.                                          *)
(***************************************************************************)
\* The keys of param_methods.
param_methods == {"int", "float", "categorial"}

RECURSIVE SumSeq(_)
SumSeq(s) == IF s = <<>> THEN 0 ELSE s[1] + SumSeq(Tail(s))

\* A Loss instance: loss(values, params), a number computed from one row of
\* the results file and the trial's parameters.
loss(values, params) == 10 * values.metric + SumSeq(params)

\* trial_data with the filter lost: every row of the file.
trial_data_unfiltered(df, trial_id) == df

\* trial_data = df[df['trial'] == trial_id]
trial_data(df, trial_id) == SelectSeq(df, LAMBDA row : row.trial = trial_id)

\* step_data taking every row at or after the expected step.
step_data_from(df, trial_id, step) ==
    SelectSeq(trial_data(df, trial_id), LAMBDA row : row.step >= step)

\* step_data = trial_data[trial_data['step'] == current_step]
step_data(df, trial_id, step) ==
    SelectSeq(trial_data(df, trial_id), LAMBDA row : row.step = step)

\* termination_data with the trial filter lost: the terminal rows of every
\* trial.
termination_data_any_trial(df, trial_id) ==
    SelectSeq(df, LAMBDA row : row.step = -1)

\* termination_data = trial_data[trial_data['step'] == -1]
termination_data(df, trial_id) ==
    SelectSeq(trial_data(df, trial_id), LAMBDA row : row.step = -1)

\* losses = step_data.apply(lambda row: loss(row, trial.params), axis=1)
RECURSIVE apply_loss(_, _)
apply_loss(rows, params) ==
    IF rows = <<>> THEN <<>>
    ELSE <<loss(rows[1], params)>> \o apply_loss(Tail(rows), params)

\* losses.mean()
mean(losses) == [num |-> SumSeq(losses), den |-> Len(losses)]

\* FirstInvalid with the membership test lost: no kind is ever rejected.
FirstInvalid_none(types, i) == Len(types) + 1

\* The first entry of trial_param_types whose kind is not in param_methods
\* (Len + 1 when every kind is).
RECURSIVE FirstInvalid(_, _)
FirstInvalid(types, i) ==
    IF i > Len(types) \/ types[i] \notin param_methods THEN i
    ELSE FirstInvalid(types, i + 1)

\* param_methods[arg_type]: the method of the trial a key stands for; the
\* lookup of any other key raises KeyError.
param_method(arg_type) ==
    CASE arg_type = "int" -> "suggest_int"
      [] arg_type = "float" -> "suggest_float"
      [] arg_type = "categorial" -> "suggest_categorical"
      [] OTHER -> "KeyError"

\* The suggest_* call made for each of the entries 1..n with values vals.
RECURSIVE SuggestEvents(_, _, _)
SuggestEvents(types, vals, n) ==
    IF n = 0 THEN <<>>
    ELSE SuggestEvents(types, vals, n - 1)
             \o <<Event("suggest", vals[n], n, param_method(types[n]))>>

\* report_key with the flag ignored: the step is always passed.
report_key_always_step(t) == current_step[t]

\* The second argument of trial.report.
report_key(t) ==
    IF ~log_trial_id_with_intermediate THEN current_step[t] ELSE t

(***************************************************************************)
(* The initial state: objectives created, no evaluation started, no file.  *)
(***************************************************************************)
InitWith(local) ==
    /\ trial_param_types \in ParamSpecs
    /\ return_average_on_prune \in BOOLEAN
    /\ log_trial_id_with_intermediate \in BOOLEAN
    /\ file_exists = FALSE
    /\ store = <<>>
    /\ jobs = [t \in Trials |-> 0]
    /\ next_job = FirstJobId
    /\ pc = [t \in Trials |-> IF t \in local THEN "init" ELSE "elsewhere"]
    /\ trial_params = [t \in Trials |-> <<>>]
    /\ stdout = [t \in Trials |-> <<>>]
    /\ job_id = [t \in Trials |-> 0]
    /\ current_step = [t \in Trials |-> 0]
    /\ seen = [t \in Trials |-> "nothing"]
    /\ outcome = [t \in Trials |-> "running"]
    /\ result = [t \in Trials |-> None]
    /\ trace = [t \in Trials |-> <<>>]

Init == InitWith(Local)

(***************************************************************************)
(* The evaluation objective(trial) of trial t.                             *)
(***************************************************************************)
\* The parameter loop: every kind is in param_methods.
Resolve(t) ==
    /\ pc[t] = "init"
    /\ FirstInvalid(trial_param_types, 1) > Len(trial_param_types)
    /\ \E vals \in [1..Len(trial_param_types) -> SampleValues] :
          /\ trial_params' = [trial_params EXCEPT ![t] = vals]
          /\ trace' = [trace EXCEPT ![t] =
                 @ \o SuggestEvents(trial_param_types, vals, Len(vals))]
    /\ pc' = [pc EXCEPT ![t] = "submit"]
    /\ UNCHANGED <<cfg_vars, env_vars, stdout, job_id, current_step, seen, outcome, result>>

\* The parameter loop reaches a kind that is not in param_methods: the error
\* is logged and the bare `raise`, with no exception being handled, raises
\* RuntimeError.
ResolveInvalid(t) ==
    /\ pc[t] = "init"
    /\ LET k == FirstInvalid(trial_param_types, 1)
       IN  /\ k <= Len(trial_param_types)
           /\ \E vals \in [1..(k - 1) -> SampleValues] :
                 /\ trial_params' = [trial_params EXCEPT ![t] = vals]
                 /\ trace' = [trace EXCEPT ![t] =
                        @ \o SuggestEvents(trial_param_types, vals, k - 1)
                          \o <<Event("log.error", 0, 0,
                                     "Invalid parameter type")>>]
    /\ outcome' = [outcome EXCEPT ![t] = "RuntimeError"]
    /\ pc' = [pc EXCEPT ![t] = "done"]
    /\ UNCHANGED <<cfg_vars, env_vars, stdout, job_id, current_step, seen, result>>

\* SubmitRejected with a retry: the failure is logged and sbatch runs again.
SubmitRejected_retry(t) ==
    /\ pc[t] = "submit"
    /\ \E exit \in {1, 2} :
          trace' = [trace EXCEPT ![t] =
              @ \o <<Event("sbatch", exit, t, ""),
                     Event("log.error", 0, 0, "Error submitting SLURM job")>>]
    /\ UNCHANGED <<cfg_vars, env_vars, pc, trial_params, stdout, job_id,
                   current_step, seen, outcome, result>>

\* subprocess.run(command, check=True) exits non-zero: CalledProcessError is
\* logged and raised again.  The scheduler has accepted no job.
SubmitRejected(t) ==
    /\ pc[t] = "submit"
    /\ \E exit \in {1, 2} :
          trace' = [trace EXCEPT ![t] =
              @ \o <<Event("sbatch", exit, t, ""),
                     Event("log.error", 0, 0, "Error submitting SLURM job")>>]
    /\ outcome' = [outcome EXCEPT ![t] = "CalledProcessError"]
    /\ pc' = [pc EXCEPT ![t] = "done"]
    /\ UNCHANGED <<cfg_vars, env_vars, trial_params, stdout, job_id,
                   current_step, seen, result>>

\* sbatch exits zero and the regex matches its output: the job identifier is
\* read from the match and the submission is logged.
SubmitAccepted(t) ==
    /\ pc[t] = "submit"
    /\ \E out \in SbatchOutputs(next_job) :
          LET match == re_search(out)
          IN  /\ match.found
              /\ stdout' = [stdout EXCEPT ![t] = out]
              /\ job_id' = [job_id EXCEPT ![t] = int(match.group)]
              /\ trace' = [trace EXCEPT ![t] =
                     @ \o <<Event("sbatch", 0, t, ""),
                            Event("log.info", int(match.group), t,
                                  "SLURM job submitted with trial ID"),
                            Event("log.info", 0, 0, "Paramters")>>]
    /\ jobs' = [jobs EXCEPT ![t] = next_job]
    /\ next_job' = next_job + 1
    /\ pc' = [pc EXCEPT ![t] = "await_file"]
    /\ UNCHANGED <<cfg_vars, file_exists, store, trial_params, current_step,
                   seen, outcome, result>>

\* sbatch exits zero and the regex does not match its output: match is None
\* and match.group(1) raises AttributeError, which the except clause for
\* CalledProcessError does not catch.  The job runs.
SubmitUnparsed(t) ==
    /\ pc[t] = "submit"
    /\ \E out \in SbatchOutputs(next_job) :
          /\ ~re_search(out).found
          /\ stdout' = [stdout EXCEPT ![t] = out]
    /\ trace' = [trace EXCEPT ![t] = @ \o <<Event("sbatch", 0, t, "")>>]
    /\ jobs' = [jobs EXCEPT ![t] = next_job]
    /\ next_job' = next_job + 1
    /\ outcome' = [outcome EXCEPT ![t] = "AttributeError"]
    /\ pc' = [pc EXCEPT ![t] = "done"]
    /\ UNCHANGED <<cfg_vars, file_exists, store, trial_params, job_id,
                   current_step, seen, result>>

\* while not os.path.isfile(results_path): time.sleep(5)
AwaitFileSleep(t) ==
    /\ pc[t] = "await_file"
    /\ ~file_exists
    /\ UNCHANGED <<cfg_vars, env_vars, pc, trial_params, stdout, job_id,
                   current_step, seen, outcome, result, trace>>

\* AwaitFileDone without the test of the file's existence.
AwaitFileDone_nowait(t) ==
    /\ pc[t] = "await_file"
    /\ current_step' = [current_step EXCEPT ![t] = 0]
    /\ pc' = [pc EXCEPT ![t] = "polling"]
    /\ UNCHANGED <<cfg_vars, env_vars, trial_params, stdout, job_id, seen,
                   outcome, result, trace>>

\* The file exists: the wait ends and current_step = 0.
AwaitFileDone(t) ==
    /\ pc[t] = "await_file"
    /\ file_exists
    /\ current_step' = [current_step EXCEPT ![t] = 0]
    /\ pc' = [pc EXCEPT ![t] = "polling"]
    /\ UNCHANGED <<cfg_vars, env_vars, trial_params, stdout, job_id, seen,
                   outcome, result, trace>>

\* What a poll cycle finds: the emptiness of step_data and termination_data.
Found(sd, td) ==
    IF sd = <<>> THEN (IF td = <<>> THEN "neither" ELSE "terminal")
    ELSE (IF td = <<>> THEN "step" ELSE "both")

\* branch with the two tests in the other order: the row of the expected
\* step is looked at before the terminal row.
branch_step_first(sd, td) ==
    IF sd = <<>> /\ td = <<>> THEN "sleep"
    ELSE IF sd # <<>> THEN "step"
    ELSE "terminal"

\* The branch a poll cycle takes: the chain of `if` statements of the loop
\* body, in their order.
branch(sd, td) ==
    IF sd = <<>> /\ td = <<>> THEN "sleep"
    ELSE IF td # <<>> THEN "terminal"
    ELSE "step"

\* cancel without the scancel call.
cancel_without_scancel(job, exit, sd, params) ==
    [ events |-> <<>>,
      outcome |-> IF return_average_on_prune THEN "returned" ELSE "TrialPruned",
      result |-> IF return_average_on_prune
                 THEN mean(apply_loss(sd, params)) ELSE None ]

\* cancel with the except clause raising again: a failed scancel ends the
\* evaluation with CalledProcessError.
cancel_propagates(job, exit, sd, params) ==
    [ events |->
          <<Event("scancel", exit, job, ""),
            IF exit = 0
            THEN Event("log.info", job, 0, "SLURM job cancelled due to pruning")
            ELSE Event("log.error", 0, 0, "Error cancelling SLURM job")>>,
      outcome |-> IF exit # 0 THEN "CalledProcessError"
                  ELSE IF return_average_on_prune THEN "returned"
                  ELSE "TrialPruned",
      result |-> IF exit = 0 /\ return_average_on_prune
                 THEN mean(apply_loss(sd, params)) ELSE None ]

\* cancel with the finally clause ignoring return_average_on_prune: the mean
\* is always returned.
cancel_ignores_flag(job, exit, sd, params) ==
    [ events |->
          <<Event("scancel", exit, job, ""),
            IF exit = 0
            THEN Event("log.info", job, 0, "SLURM job cancelled due to pruning")
            ELSE Event("log.error", 0, 0, "Error cancelling SLURM job")>>,
      outcome |-> "returned",
      result |-> mean(apply_loss(sd, params)) ]

\* The try statement that follows a prune decision.  try: scancel runs; a
\* zero exit is logged as the cancellation.  except CalledProcessError: a
\* non-zero exit is logged as an error and handled.  finally: the mean of the
\* losses of step_data is returned, or TrialPruned is raised.
cancel(job, exit, sd, params) ==
    [ events |->
          <<Event("scancel", exit, job, ""),
            IF exit = 0
            THEN Event("log.info", job, 0, "SLURM job cancelled due to pruning")
            ELSE Event("log.error", 0, 0, "Error cancelling SLURM job")>>,
      outcome |-> IF return_average_on_prune THEN "returned" ELSE "TrialPruned",
      result |-> IF return_average_on_prune
                 THEN mean(apply_loss(sd, params)) ELSE None ]

\* PollSleep giving up: a cycle that finds neither row ends the evaluation.
PollSleep_timeout(t) ==
    /\ pc[t] = "polling"
    /\ LET sd == step_data(store, t, current_step[t])
           td == termination_data(store, t)
       IN  /\ branch(sd, td) = "sleep"
           /\ seen' = [seen EXCEPT ![t] = Found(sd, td)]
    /\ outcome' = [outcome EXCEPT ![t] = "TimeoutError"]
    /\ pc' = [pc EXCEPT ![t] = "done"]
    /\ UNCHANGED <<cfg_vars, env_vars, trial_params, stdout, job_id,
                   current_step, result, trace>>

\* A poll cycle that finds neither row: sleep and read again.
PollSleep(t) ==
    /\ pc[t] = "polling"
    /\ LET sd == step_data(store, t, current_step[t])
           td == termination_data(store, t)
       IN  /\ branch(sd, td) = "sleep"
           /\ seen' = [seen EXCEPT ![t] = Found(sd, td)]
    /\ UNCHANGED <<cfg_vars, env_vars, pc, trial_params, stdout, job_id,
                   current_step, outcome, result, trace>>

\* A poll cycle that finds a terminal row: return its loss.
PollTerminal(t) ==
    /\ pc[t] = "polling"
    /\ LET sd == step_data(store, t, current_step[t])
           td == termination_data(store, t)
       IN  /\ branch(sd, td) = "terminal"
           /\ seen' = [seen EXCEPT ![t] = Found(sd, td)]
           /\ result' = [result EXCEPT ![t] =
                  Value(loss(td[1], trial_params[t]))]
    /\ outcome' = [outcome EXCEPT ![t] = "returned"]
    /\ pc' = [pc EXCEPT ![t] = "done"]
    /\ UNCHANGED <<cfg_vars, env_vars, trial_params, stdout, job_id,
                   current_step, trace>>

\* PollContinue with the expected step advanced by two.
PollContinue_double(t) ==
    /\ pc[t] = "polling"
    /\ LET sd == step_data(store, t, current_step[t])
           td == termination_data(store, t)
       IN  /\ branch(sd, td) = "step"
           /\ seen' = [seen EXCEPT ![t] = Found(sd, td)]
           /\ trace' = [trace EXCEPT ![t] =
                  @ \o <<Event("report", loss(sd[1], trial_params[t]),
                               report_key(t), ""),
                         Event("should_prune", 0, 0, "")>>]
    /\ current_step' = [current_step EXCEPT ![t] = @ + 2]
    /\ UNCHANGED <<cfg_vars, env_vars, pc, trial_params, stdout, job_id,
                   outcome, result>>

\* A poll cycle that finds the row of the expected step and no terminal row:
\* its loss is reported, and the oracle says continue.
PollContinue(t) ==
    /\ pc[t] = "polling"
    /\ LET sd == step_data(store, t, current_step[t])
           td == termination_data(store, t)
       IN  /\ branch(sd, td) = "step"
           /\ seen' = [seen EXCEPT ![t] = Found(sd, td)]
           /\ trace' = [trace EXCEPT ![t] =
                  @ \o <<Event("report", loss(sd[1], trial_params[t]),
                               report_key(t), ""),
                         Event("should_prune", 0, 0, "")>>]
    /\ current_step' = [current_step EXCEPT ![t] = @ + 1]
    /\ UNCHANGED <<cfg_vars, env_vars, pc, trial_params, stdout, job_id,
                   outcome, result>>

\* PollPrune cancelling the job submitted last by any evaluation.
PollPrune_last_job(t) ==
    /\ pc[t] = "polling"
    /\ LET sd == step_data(store, t, current_step[t])
           td == termination_data(store, t)
       IN  /\ branch(sd, td) = "step"
           /\ seen' = [seen EXCEPT ![t] = Found(sd, td)]
           /\ \E exit \in {0, 1} :
                 LET c == cancel(next_job - 1, exit, sd, trial_params[t])
                 IN  /\ trace' = [trace EXCEPT ![t] =
                            @ \o <<Event("report",
                                         loss(sd[1], trial_params[t]),
                                         report_key(t), ""),
                                   Event("should_prune", 1, 0, "")>>
                              \o c.events]
                     /\ outcome' = [outcome EXCEPT ![t] = c.outcome]
                     /\ result' = [result EXCEPT ![t] = c.result]
    /\ pc' = [pc EXCEPT ![t] = "done"]
    /\ UNCHANGED <<cfg_vars, env_vars, trial_params, stdout, job_id,
                   current_step>>

\* The same, and the oracle says prune: the job is cancelled and the
\* evaluation ends.
PollPrune(t) ==
    /\ pc[t] = "polling"
    /\ LET sd == step_data(store, t, current_step[t])
           td == termination_data(store, t)
       IN  /\ branch(sd, td) = "step"
           /\ seen' = [seen EXCEPT ![t] = Found(sd, td)]
           /\ \E exit \in {0, 1} :
                 LET c == cancel(job_id[t], exit, sd, trial_params[t])
                 IN  /\ trace' = [trace EXCEPT ![t] =
                            @ \o <<Event("report",
                                         loss(sd[1], trial_params[t]),
                                         report_key(t), ""),
                                   Event("should_prune", 1, 0, "")>>
                              \o c.events]
                     /\ outcome' = [outcome EXCEPT ![t] = c.outcome]
                     /\ result' = [result EXCEPT ![t] = c.result]
    /\ pc' = [pc EXCEPT ![t] = "done"]
    /\ UNCHANGED <<cfg_vars, env_vars, trial_params, stdout, job_id,
                   current_step>>

(***************************************************************************)
(* The environment.                                                        *)
(***************************************************************************)
\* The results file comes to exist, with its header and no row.
CreateFile ==
    /\ ~file_exists
    /\ file_exists' = TRUE
    /\ UNCHANGED <<cfg_vars, store, jobs, next_job, eval_vars>>

\* The remote job of trial t appends a row.  The job exists once its
\* submission was accepted.
AppendRow(t) ==
    /\ file_exists
    /\ jobs[t] # 0 \/ pc[t] = "elsewhere"
    /\ Len(store) < MaxRows
    /\ \E step \in -1..MaxStep, metric \in Metrics(t) :
          store' = Append(store, [trial |-> t, step |-> step,
                                  metric |-> metric])
    /\ UNCHANGED <<cfg_vars, file_exists, jobs, next_job, eval_vars>>

Next ==
    \/ \E t \in Trials : Resolve(t)
    \/ \E t \in Trials : ResolveInvalid(t)
    \/ \E t \in Trials : SubmitRejected(t)
    \/ \E t \in Trials : SubmitAccepted(t)
    \/ \E t \in Trials : SubmitUnparsed(t)
    \/ \E t \in Trials : AwaitFileSleep(t)
    \/ \E t \in Trials : AwaitFileDone(t)
    \/ \E t \in Trials : PollSleep(t)
    \/ \E t \in Trials : PollTerminal(t)
    \/ \E t \in Trials : PollContinue(t)
    \/ \E t \in Trials : PollPrune(t)
    \/ CreateFile
    \/ \E t \in Trials : AppendRow(t)

Spec == Init /\ [][Next]_vars

\* Every trial is evaluated here, concurrently, by objectives created with the
\* default return_average_on_prune and log_trial_id_with_intermediate.
ConcInit ==
    /\ InitWith(Trials)
    /\ ~return_average_on_prune
    /\ ~log_trial_id_with_intermediate

ConcSpec == ConcInit /\ [][Next]_vars

\* One cycle of either wait loop of trial t.
Wait(t) ==
    \/ AwaitFileSleep(t) \/ AwaitFileDone(t)
    \/ PollSleep(t) \/ PollTerminal(t) \/ PollContinue(t) \/ PollPrune(t)

\* Fair polling: an evaluation that is in a wait loop keeps running its
\* cycles (each time.sleep(5) returns and the thread is scheduled again).
FairSpec == Spec /\ \A t \in Trials : WF_vars(Wait(t))

(***************************************************************************)
(* Vocabulary of the properties.                                           *)
(***************************************************************************)
\* The calls of kind op that the evaluation of trial t has made, in order.
Calls(t, op) == SelectSeq(trace[t], LAMBDA e : e.op = op)

\* The rows of trial t at a step, in file order.
RowsAt(t, step) == SelectSeq(store, LAMBDA r : r.trial = t /\ r.step = step)

\* The evaluation of trial t made a step.
Moved(t) ==
    <<pc[t], seen[t], current_step[t], trace[t], outcome[t], result[t]>>'
        # <<pc[t], seen[t], current_step[t], trace[t], outcome[t], result[t]>>

\* The evaluation of trial t never read the store.
NeverPolled(t) ==
    /\ seen[t] = "nothing"
    /\ pc[t] # "polling"
    /\ Calls(t, "report") = <<>>
    /\ Calls(t, "should_prune") = <<>>
    /\ Calls(t, "scancel") = <<>>

\* The text `Submitted batch job <digits>` stands in s at position i.
PatternAt(s, i) ==
    LiteralAt(s, i) /\ DigitRunEnd(s, i + Len(Literal)) > i + Len(Literal)

\* The digits of the first `Submitted batch job <digits>` of s.
PatternDigits(s) ==
    LET i == CHOOSE k \in 1..Len(s) :
                 PatternAt(s, k) /\ \A m \in 1..(k - 1) : ~PatternAt(s, m)
    IN  SubSeq(s, i + Len(Literal), DigitRunEnd(s, i + Len(Literal)) - 1)

\* sbatch ran for trial t and exited with a status in exits.
SbatchExited(t, exits) ==
    \E i \in 1..Len(trace[t]) :
        trace[t][i].op = "sbatch" /\ trace[t][i].val \in exits

\* The sum of the values reported for trial t.
ReportedSum(t) ==
    LET r == Calls(t, "report")
    IN  SumSeq([i \in 1..Len(r) |-> r[i].val])

(***************************************************************************)
(* C1.  Terminal row and termination.                                      *)
(***************************************************************************)
\* The loss of the first terminal row of trial t, as a returned value.
TerminalValue(t) == Value(loss(RowsAt(t, -1)[1], trial_params[t]))

C2_TerminalPrecedence ==
    /\ [][\A t \in Trials :
            (/\ pc[t] = "polling"
             /\ RowsAt(t, -1) # <<>>
             /\ RowsAt(t, current_step[t]) # <<>>
             /\ Moved(t))
                => (/\ pc'[t] = "done"
                    /\ outcome'[t] = "returned"
                    /\ result'[t] = TerminalValue(t)
                    /\ seen'[t] = "both"
                    /\ trace'[t] = trace[t]
                    /\ current_step'[t] = current_step[t])]_vars
    /\ [](\A t \in Trials :
            (seen[t] = "both" /\ current_step[t] = 0)
                => (Calls(t, "report") = <<>> /\ outcome[t] = "returned"))

\* The first poll found the row of step 0 and a terminal row, and the
\* evaluation returned the loss of the terminal row without any report.
C2_Witness ==
    \E t \in Trials :
        /\ seen[t] = "both"
        /\ current_step[t] = 0
        /\ outcome[t] = "returned"
        /\ result[t] = TerminalValue(t)
        /\ Calls(t, "report") = <<>>

(***************************************************************************)
(* C3.  The value returned on a prune with return_average_on_prune.        *)
(***************************************************************************)
\* Trial t has at most one row per step.
NoDuplicateRows(t) ==
    \A i, j \in 1..Len(store) :
        (store[i].trial = t /\ store[j].trial = t
            /\ store[i].step = store[j].step) => i = j

\* C3 (for a store without duplicate rows): with return_average_on_prune, an
\* evaluation pruned at step k returns the sum of the losses reported at
\* steps 0..k divided by k + 1.
C3_PruneReturnsMeanOfAllSteps ==
    \A t \in Trials :
        (/\ return_average_on_prune
         /\ Calls(t, "scancel") # <<>>
         /\ NoDuplicateRows(t))
            => (/\ outcome[t] = "returned"
                /\ result[t].den > 0
                /\ Len(Calls(t, "report")) = current_step[t] + 1
                /\ result[t].num * (current_step[t] + 1)
                       = ReportedSum(t) * result[t].den)

(***************************************************************************)
(* C4.  The number of scancel calls under an oracle that always prunes.    *)
(***************************************************************************)
\* Every answer the oracle gave to trial t so far was `prune`.
AlwaysPruned(t) ==
    \A i \in 1..Len(trace[t]) :
        trace[t][i].op = "should_prune" => trace[t][i].val = 1

\* C4 as stated: under an oracle that always prunes, an evaluation that has
\* ended with a value or with TrialPruned has called scancel exactly once.
C4_ExactlyOneScancel ==
    \A t \in Trials :
        (AlwaysPruned(t) /\ outcome[t] \in {"returned", "TrialPruned"})
            => Len(Calls(t, "scancel")) = 1

\* C4 as amended: under an oracle that always prunes, scancel is called once
\* for each prune answer, which is at most once; an evaluation that has ended
\* called it exactly once when its last poll found the row of the expected
\* step and no terminal row, and never when it ended on a terminal row or
\* before polling.
C4_OneScancelPerPrune ==
    \A t \in Trials :
        AlwaysPruned(t)
            => (/\ Len(Calls(t, "scancel")) = Len(Calls(t, "should_prune"))
                /\ Len(Calls(t, "scancel")) <= 1
                /\ pc[t] = "done"
                     => (Len(Calls(t, "scancel")) = 1 <=> seen[t] = "step"))

\* An evaluation was pruned at its first report and called scancel once.
C4_Witness ==
    \E t \in Trials :
        /\ AlwaysPruned(t)
        /\ pc[t] = "done"
        /\ Len(Calls(t, "should_prune")) = 1
        /\ Len(Calls(t, "scancel")) = 1

(***************************************************************************)
(* C5.  A failed cancellation.                                             *)
(***************************************************************************)
\* The value a pruned evaluation ends with when scancel succeeds: the mean of
\* the losses of the rows at the expected step with return_average_on_prune,
\* nothing otherwise.
PrunedResult(t) ==
    IF return_average_on_prune
    THEN mean(apply_loss(RowsAt(t, current_step[t]), trial_params[t]))
    ELSE None

\* C5: the poll cycle that calls scancel ends the evaluation the same way
\* whatever scancel's exit status (TrialPruned without a value, or the mean
\* with return_average_on_prune), the call is the last but one the evaluation
\* makes, a non-zero exit is followed by an error log entry, and no
\* evaluation ends with CalledProcessError after a scancel.
C5_CancelFailureNotFatal ==
    /\ [][\A t \in Trials :
            Len(Calls(t, "scancel"))' > Len(Calls(t, "scancel"))
                => (/\ pc'[t] = "done"
                    /\ outcome'[t] = (IF return_average_on_prune
                                      THEN "returned" ELSE "TrialPruned")
                    /\ result'[t] = PrunedResult(t))]_vars
    /\ [](\A t \in Trials : \A i \in 1..Len(trace[t]) :
            trace[t][i].op = "scancel"
                => (/\ i + 1 = Len(trace[t])
                    /\ trace[t][i + 1].op =
                           (IF trace[t][i].val = 0
                            THEN "log.info" ELSE "log.error")
                    /\ outcome[t] \in {"returned", "TrialPruned"}))

\* scancel failed, the failure was logged, and the evaluation ended pruned.
C5_Witness ==
    \E t \in Trials : \E i \in 1..Len(trace[t]) :
        /\ trace[t][i].op = "scancel"
        /\ trace[t][i].val # 0
        /\ trace[t][i + 1].op = "log.error"
        /\ outcome[t] = "TrialPruned"

(***************************************************************************)
(* C6.  The default outcome of a prune.                                    *)
(***************************************************************************)
\* The oracle answered `prune` to trial t.
Pruned(t) ==
    \E i \in 1..Len(trace[t]) :
        trace[t][i].op = "should_prune" /\ trace[t][i].val = 1

\* C6: with return_average_on_prune = FALSE, an evaluation the oracle has
\* pruned has ended with TrialPruned and no value, its last calls being the
\* prune answer, the scancel call and its log entry; and an evaluation that
\* has ended makes no further step.
C6_DefaultPruneAborts ==
    /\ [](\A t \in Trials :
            (~return_average_on_prune /\ Pruned(t))
                => (/\ pc[t] = "done"
                    /\ outcome[t] = "TrialPruned"
                    /\ result[t] = None
                    /\ Len(Calls(t, "scancel")) = 1
                    /\ LET n == Len(trace[t])
                       IN  /\ trace[t][n - 2].op = "should_prune"
                           /\ trace[t][n - 2].val = 1
                           /\ trace[t][n - 1].op = "scancel"))
    /\ [][\A t \in Trials : pc[t] = "done" => ~Moved(t)]_vars

\* An evaluation ended with TrialPruned after one scancel call.
C6_Witness ==
    \E t \in Trials :
        /\ ~return_average_on_prune
        /\ Pruned(t)
        /\ outcome[t] = "TrialPruned"
        /\ result[t] = None
        /\ Len(Calls(t, "scancel")) = 1

(***************************************************************************)
(* C7 - C10.  Parameter resolution and submission.                         *)
(***************************************************************************)
\* The ways an evaluation ends with an error.
Failures == {"RuntimeError", "CalledProcessError", "AttributeError"}

\* The text `Submitted batch job <digits>` stands somewhere in s.
HasPattern(s) == \E i \in 1..Len(s) : PatternAt(s, i)

\* C7: when sbatch exited zero and its output does not contain `Submitted
\* batch job <digits>`, the evaluation has ended with an error, an error log
\* entry was written, and nothing was polled, reported or cancelled.
C7_UnparsedOutputIsLoggedFailure ==
    \A t \in Trials :
        (SbatchExited(t, {0}) /\ ~HasPattern(stdout[t]))
            => (/\ pc[t] = "done"
                /\ outcome[t] \in Failures
                /\ Calls(t, "log.error") # <<>>
                /\ NeverPolled(t))

C9_RejectedSubmissionNotRetried ==
    \A t \in Trials :
        /\ Len(Calls(t, "sbatch")) <= 1
        /\ SbatchExited(t, {1, 2})
             => (/\ pc[t] = "done"
                 /\ outcome[t] = "CalledProcessError"
                 /\ job_id[t] = 0
                 /\ NeverPolled(t))

\* sbatch exited non-zero and the evaluation ended with CalledProcessError.
C9_Witness ==
    \E t \in Trials :
        /\ SbatchExited(t, {1, 2})
        /\ Len(Calls(t, "sbatch")) = 1
        /\ outcome[t] = "CalledProcessError"

\* C10: when sbatch exited zero and its output contains `Submitted batch job
\* <digits>` anywhere, the submission has succeeded and job_id is the number
\* those digits write.
C10_PatternAnywhereIsAccepted ==
    \A t \in Trials :
        (SbatchExited(t, {0}) /\ HasPattern(stdout[t]))
            => (/\ outcome[t] \notin Failures
                /\ job_id[t] = int(PatternDigits(stdout[t])))

(***************************************************************************)
(* C11.  Dispatch of the documented kinds.                                 *)
(***************************************************************************)
\* The kinds the docstring of create_objective names.
DocumentedKinds == {"int", "float", "categorical"}

\* The suggest_* capability that matches a documented kind.
Capability(kind) ==
    CASE kind = "int" -> "suggest_int"
      [] kind = "float" -> "suggest_float"
      [] kind = "categorical" -> "suggest_categorical"
      [] OTHER -> "none"

\* C11: when every kind of trial_param_types is a documented kind, an
\* evaluation that has left the parameter loop has not ended with the error
\* of that loop, and has made one suggest call per parameter, in declaration
\* order, each to the capability that matches the declared kind.
C11_DocumentedKindsAreDispatched ==
    \A t \in Trials :
        (/\ \A i \in 1..Len(trial_param_types) :
                trial_param_types[i] \in DocumentedKinds
         /\ pc[t] \notin {"init", "elsewhere"})
            => (/\ outcome[t] # "RuntimeError"
                /\ Len(Calls(t, "suggest")) = Len(trial_param_types)
                /\ \A i \in 1..Len(trial_param_types) :
                       /\ Calls(t, "suggest")[i].key = i
                       /\ Calls(t, "suggest")[i].msg =
                              Capability(trial_param_types[i]))

(***************************************************************************)
(* C12.  The key of a report.                                              *)
(***************************************************************************)
\* C12: the i-th report of an evaluation is made for step i - 1: its value is
\* the loss of the first row of the trial at that step, and its key is that
\* step when log_trial_id_with_intermediate is false and the trial number
\* when it is true.  Whatever the flag, the expected step is the number of
\* `continue` answers, and a pruned evaluation has ended as
\* return_average_on_prune says.
C12_ReportKeyFollowsFlag ==
    \A t \in Trials :
        LET r == Calls(t, "report")
        IN  /\ \A i \in 1..Len(r) :
                  /\ r[i].key = (IF log_trial_id_with_intermediate
                                 THEN t ELSE i - 1)
                  /\ RowsAt(t, i - 1) # <<>>
                  /\ r[i].val = loss(RowsAt(t, i - 1)[1], trial_params[t])
            /\ Len(r) = Len(Calls(t, "should_prune"))
            /\ Len(r) = current_step[t] + (IF Pruned(t) THEN 1 ELSE 0)
            /\ Pruned(t) => outcome[t] = (IF return_average_on_prune
                                          THEN "returned" ELSE "TrialPruned")

\* With the flag set, the report made at step 1 carried the trial number.
C12_Witness ==
    \E t \in Trials :
        /\ log_trial_id_with_intermediate
        /\ Len(Calls(t, "report")) = 2
        /\ Calls(t, "report")[2].key = t
        /\ current_step[t] = 2

(***************************************************************************)
(* C13.  Concurrent evaluations do not interfere.                          *)
(***************************************************************************)
\* Everything the evaluation of trial t holds.
Evaluation(t) ==
    <<pc[t], trial_params[t], stdout[t], job_id[t], current_step[t], seen[t],
      outcome[t], result[t], trace[t]>>

\* C13: each step of the evaluation of trial t is fixed by the rows of t
\* alone.  A step that appends a row changes no evaluation; a step of one
\* evaluation changes no other evaluation and not the store; and a poll cycle
\* of t finds, reports and returns what the rows of t at its expected step
\* and at step -1 give, whatever rows of other trials stand before or between
\* them.
C13_EvaluationsDoNotInterfere ==
    [][\A t \in Trials :
          /\ store' # store => Evaluation(t)' = Evaluation(t)
          /\ Evaluation(t)' # Evaluation(t)
               => (/\ store' = store
                   /\ \A u \in Trials \ {t} : Evaluation(u)' = Evaluation(u))
          /\ (pc[t] = "polling" /\ Evaluation(t)' # Evaluation(t))
               => (/\ seen'[t] = Found(RowsAt(t, current_step[t]),
                                       RowsAt(t, -1))
                   /\ seen'[t] \in {"terminal", "both"}
                        => (outcome'[t] = "returned"
                              /\ result'[t] = TerminalValue(t))
                   /\ seen'[t] = "step"
                        => (/\ Len(trace'[t]) >= Len(trace[t]) + 2
                            /\ trace'[t][Len(trace[t]) + 1] =
                                   Event("report",
                                         loss(RowsAt(t, current_step[t])[1],
                                              trial_params[t]),
                                         report_key(t), ""))
                   /\ seen'[t] = "neither" => trace'[t] = trace[t])]_vars

\* Rows of two trials stand interleaved in the store, one evaluation has
\* returned the loss of its own terminal row and the other has reported the
\* loss of its own row.
C13_Witness ==
    \E t, u \in Trials :
        /\ t # u
        /\ Len(store) = 3
        /\ store[1].trial = u /\ store[2].trial = t /\ store[3].trial = u
        /\ store[3].step = 0
        /\ seen[t] = "terminal"
        /\ outcome[t] = "returned"
        /\ result[t] = TerminalValue(t)
        /\ Len(Calls(u, "report")) = 1
        /\ Calls(u, "report")[1].val = loss(RowsAt(u, 0)[1], trial_params[u])

(***************************************************************************)
(* C14.  Step progression.                                                 *)
(***************************************************************************)
\* C14: the expected step is 0 until polling starts; a step of the model
\* leaves it unchanged or adds one, and adds one only in a poll cycle that
\* found a row at the expected step and appended to the calls exactly the
\* report of that row's loss followed by a `continue` answer.  With
\* step-keyed reporting the i-th report carries key i - 1, and every
\* should_prune call comes right after a report.
C14_StepProgression ==
    /\ [][\A t \in Trials :
            /\ current_step'[t] \in {current_step[t], current_step[t] + 1}
            /\ current_step'[t] = current_step[t] + 1
                 => (/\ pc[t] = "polling" /\ pc'[t] = "polling"
                     /\ RowsAt(t, current_step[t]) # <<>>
                     /\ trace'[t] = trace[t] \o
                            <<Event("report",
                                    loss(RowsAt(t, current_step[t])[1],
                                         trial_params[t]),
                                    IF log_trial_id_with_intermediate
                                    THEN t ELSE current_step[t], ""),
                              Event("should_prune", 0, 0, "")>>)]_vars
    /\ [](\A t \in Trials :
            /\ pc[t] \in {"init", "submit", "await_file", "elsewhere"}
                 => current_step[t] = 0
            /\ ~log_trial_id_with_intermediate
                 => \A i \in 1..Len(Calls(t, "report")) :
                        Calls(t, "report")[i].key = i - 1
            /\ \A j \in 1..Len(trace[t]) :
                   trace[t][j].op = "should_prune"
                       => (j > 1 /\ trace[t][j - 1].op = "report"))

\* Steps 0 and 1 were reported in order and the expected step is 2.
C14_Witness ==
    \E t \in Trials :
        /\ ~log_trial_id_with_intermediate
        /\ current_step[t] = 2
        /\ Len(Calls(t, "report")) = 2
        /\ Calls(t, "report")[1].key = 0
        /\ Calls(t, "report")[2].key = 1

(***************************************************************************)
(* C15.  Only a terminal row or a prune decision ends the poll loop.       *)
(***************************************************************************)
\* C15: in a step of a polling evaluation taken while the store holds
\* neither a row of the trial at the expected step nor a terminal row of the
\* trial, the evaluation makes no call, keeps the expected step, ends with
\* nothing and is still polling; and a step that takes an evaluation out of
\* polling either returns the loss of the trial's terminal row without a
\* call, or appends a report and a `prune` answer.
C15_OnlyTerminalOrPruneEndsPolling ==
    [][\A t \in Trials :
          pc[t] = "polling" =>
            /\ (RowsAt(t, current_step[t]) = <<>> /\ RowsAt(t, -1) = <<>>)
                 => /\ pc'[t] = "polling"
                    /\ trace'[t] = trace[t]
                    /\ current_step'[t] = current_step[t]
                    /\ outcome'[t] = outcome[t]
                    /\ result'[t] = result[t]
            /\ pc'[t] # "polling"
                 => /\ pc'[t] = "done"
                    /\ \/ /\ RowsAt(t, -1) # <<>>
                          /\ outcome'[t] = "returned"
                          /\ result'[t] = TerminalValue(t)
                          /\ trace'[t] = trace[t]
                       \/ /\ RowsAt(t, -1) = <<>>
                          /\ RowsAt(t, current_step[t]) # <<>>
                          /\ Len(trace'[t]) = Len(trace[t]) + 4
                          /\ trace'[t][Len(trace[t]) + 1].op = "report"
                          /\ trace'[t][Len(trace[t]) + 2] =
                                 Event("should_prune", 1, 0, "")]_vars

\* An evaluation that reported step 0 read the store, found neither the row
\* of step 1 nor a terminal row, and is still polling.
C15_Witness ==
    \E t \in Trials :
        /\ pc[t] = "polling"
        /\ seen[t] = "neither"
        /\ current_step[t] = 1
        /\ RowsAt(t, 1) = <<>>
        /\ RowsAt(t, -1) = <<>>
        /\ outcome[t] = "running"

(***************************************************************************)
(* C16.  Phase ordering.                                                   *)
(***************************************************************************)
\* The phases in order.
Phase(p) ==
    CASE p = "init" -> 0
      [] p = "submit" -> 1
      [] p = "await_file" -> 2
      [] p = "polling" -> 3
      [] OTHER -> 4

\* C16: an evaluation moves from a phase to the next one or to its end; one
\* that waits for the file or polls has resolved all its parameters and then
\* made exactly one submission, which exited with status 0 and gave it a job
\* identifier; the store is read only by a polling evaluation and only while
\* the file exists; and a step taken while the file is absent leaves a
\* waiting evaluation waiting.
C16_PhaseOrdering ==
    /\ [][\A t \in Local :
            /\ Phase(pc'[t]) \in {Phase(pc[t]), Phase(pc[t]) + 1, 4}
            /\ seen'[t] # seen[t] => (pc[t] = "polling" /\ file_exists)
            /\ (pc[t] = "await_file" /\ ~file_exists)
                 => (pc'[t] = "await_file" /\ seen'[t] = "nothing"
                     /\ trace'[t] = trace[t])]_vars
    /\ [](\A t \in Local :
            /\ pc[t] \in {"await_file", "polling"}
                 => /\ job_id[t] # 0
                    /\ Len(Calls(t, "suggest")) = Len(trial_param_types)
                    /\ Len(Calls(t, "sbatch")) = 1
                    /\ Calls(t, "sbatch")[1].val = 0
                    /\ trace[t][Len(trial_param_types) + 1].op = "sbatch"
                    /\ \A i \in 1..Len(trial_param_types) :
                           trace[t][i].op = "suggest"
            /\ (seen[t] # "nothing" \/ Calls(t, "report") # <<>>)
                 => /\ file_exists
                    /\ job_id[t] # 0
                    /\ Len(Calls(t, "sbatch")) = 1
                    /\ Calls(t, "sbatch")[1].val = 0
            /\ pc[t] \in {"init", "submit", "await_file"}
                 => seen[t] = "nothing")

\* A submitted evaluation is waiting for a file that does not exist yet.
C16_WaitingWitness ==
    \E t \in Local :
        /\ pc[t] = "await_file"
        /\ ~file_exists
        /\ job_id[t] # 0
        /\ Len(Calls(t, "sbatch")) = 1

(***************************************************************************)
(* C17.  scancel targets the evaluation's own job, after a prune answer.   *)
(***************************************************************************)
\* C17: every scancel call of an evaluation has for target the job that
\* SLURM created for that evaluation's own submission, which is the job of no
\* other trial, and comes right after a `prune` answer; an evaluation the
\* oracle never answered `prune` to, whether it returned a terminal row's
\* loss or failed, has called scancel never.
C17_ScancelTargetsOwnJob ==
    \A t \in Trials :
        /\ \A j \in 1..Len(trace[t]) :
               trace[t][j].op = "scancel"
                   => /\ jobs[t] # 0
                      /\ trace[t][j].key = jobs[t]
                      /\ \A u \in Trials \ {t} : trace[t][j].key # jobs[u]
                      /\ j > 1
                      /\ trace[t][j - 1] = Event("should_prune", 1, 0, "")
        /\ ~Pruned(t) => Calls(t, "scancel") = <<>>
        /\ outcome[t] \in Failures => Calls(t, "scancel") = <<>>

\* Both trials have a job, and one evaluation has cancelled its own.
C17_Witness ==
    \E t \in Trials : \E u \in Trials \ {t} :
        /\ jobs[t] # 0
        /\ jobs[u] # 0
        /\ jobs[u] > jobs[t]
        /\ Len(Calls(t, "scancel")) = 1
        /\ Calls(t, "scancel")[1].key = jobs[t]

(***************************************************************************)
(* C18.  Out-of-order arrival.                                             *)
(***************************************************************************)
\* The trial has a row at a step after the expected one, and neither a row
\* at the expected step nor a terminal row.
Gap(t) ==
    /\ RowsAt(t, current_step[t]) = <<>>
    /\ RowsAt(t, -1) = <<>>
    /\ \E i \in 1..Len(store) :
           store[i].trial = t /\ store[i].step > current_step[t]

\* C18: a report is made only of a row at the expected step, so that the
\* i-th report of an evaluation is there only if the store holds rows of the
\* trial at every step from 0 to i - 1, and a value is returned without a
\* prune answer only from a terminal row; and a step taken by a polling
\* evaluation while the store holds rows of the trial after the expected
\* step, none at the expected step and no terminal row leaves the evaluation
\* polling at the same step, with no call made and nothing returned.
C18_LaterRowsAreNotConsumed ==
    /\ [][\A t \in Trials :
            (pc[t] = "polling" /\ Gap(t))
                => /\ pc'[t] = "polling"
                   /\ current_step'[t] = current_step[t]
                   /\ trace'[t] = trace[t]
                   /\ outcome'[t] = "running"
                   /\ result'[t] = None
                   /\ seen'[t] \in {seen[t], "neither"}]_vars
    /\ [](\A t \in Trials :
            /\ \A i \in 1..Len(Calls(t, "report")) :
                   \A k \in 0..(i - 1) : RowsAt(t, k) # <<>>
            /\ (outcome[t] = "returned" /\ ~Pruned(t))
                   => (RowsAt(t, -1) # <<>> /\ result[t] = TerminalValue(t)))

\* The row of step 1 is in the store, the row of step 0 is not, and the
\* evaluation has read the store and is still waiting for step 0.
C18_Witness ==
    \E t \in Trials :
        /\ pc[t] = "polling"
        /\ seen[t] = "neither"
        /\ current_step[t] = 0
        /\ Gap(t)
        /\ RowsAt(t, 1) # <<>>
        /\ Calls(t, "report") = <<>>

(***************************************************************************)
(* C19.  Failures and their log entries.                                   *)
(***************************************************************************)
\* The log entries of an evaluation that carry a job or trial identifier.
IdentifiedLogEntries(t) ==
    SelectSeq(trace[t], LAMBDA e : /\ e.op \in {"log.info", "log.error"}
                                   /\ (e.val # 0 \/ e.key # 0))

\* C19 as stated: an evaluation that failed, or whose scancel call exited
\* with a non-zero status, has made before that a log entry that carries the
\* identifier of its trial or of its job.
C19_FailuresLoggedWithIdentifier ==
    \A t \in Trials :
        (\/ outcome[t] \in Failures
         \/ \E i \in 1..Len(trace[t]) :
                trace[t][i].op = "scancel" /\ trace[t][i].val # 0)
            => IdentifiedLogEntries(t) # <<>>

(***************************************************************************)
(* C20.  The hyperparameter_tuner variant.                                 *)
(*                                                                         *)
(* hyperparameter_tuner/slurm_handler.py is the same text as               *)
(* slurm_tuner/slurm_handler.py up to the report call and the try          *)
(* statement that follows a prune decision, which are modelled here.       *)
(***************************************************************************)
\* trial.report(intermediate_value, current_step)
report_key_hpt(t) == current_step[t]

\* try: scancel runs; on a zero exit the cancellation is logged and
\* TrialPruned is raised.  except CalledProcessError: a non-zero exit is
\* logged and the bare `raise` re-raises the CalledProcessError.
cancel_hpt(job, exit) ==
    [ events |->
          <<Event("scancel", exit, job, ""),
            IF exit = 0
            THEN Event("log.info", job, 0, "SLURM job cancelled due to pruning")
            ELSE Event("log.error", 0, 0, "Error cancelling SLURM job")>>,
      outcome |-> IF exit = 0 THEN "TrialPruned" ELSE "CalledProcessError",
      result |-> None ]

\* C20 as stated: with both flags FALSE, a poll cycle in which the oracle
\* says prune makes the report with the key, makes the scancel call and ends
\* with the outcome that the hyperparameter_tuner variant makes and ends with
\* for the same job and the same exit status of scancel.
C20_VariantsAgreeOnPrune ==
    [][\A t \in Trials :
          (/\ ~return_average_on_prune
           /\ ~log_trial_id_with_intermediate
           /\ pc[t] = "polling"
           /\ pc'[t] = "done"
           /\ Len(trace'[t]) = Len(trace[t]) + 4)
              => LET n == Len(trace[t])
                     h == cancel_hpt(job_id[t], trace'[t][n + 3].val)
                 IN  /\ trace'[t][n + 1].key = report_key_hpt(t)
                     /\ trace'[t][n + 3] = h.events[1]
                     /\ outcome'[t] = h.outcome
                     /\ result'[t] = h.result]_vars
=============================================================================
